---- MODULE Spec2Model ----
(***************************************************************************)
(* State-machine model of crawlers/pmc_crawler.py: PmcCrawler.crawl and    *)
(* the two stages it runs, index_medline_plus and index_papers_by_topic.   *)
(* One action per external call or loop step of the code; the external     *)
(* collaborators (Entrez search, HTTP GET, the indexer, the clock) are     *)
(* nondeterministic choices over the outcomes they can produce.            *)
(***************************************************************************)
EXTENDS Integers, Sequences, FiniteSets, TLC

(* ------------------------------ bounds --------------------------------- *)
\* number of configured topics (cfg.pmc_crawler.topics)
NumTopics == 2
\* cfg.pmc_crawler.n_papers
n_papers == 2
\* paper identifiers the search endpoint can return
NumIds == 3
\* clock resolution: ticks of the model's clock per time unit
TicksPerUnit == 1
\* longest MedlinePlus feed considered
MaxFeedLen == 2
\* crawl() invocations followed on one PmcCrawler
MaxRuns == 2

(* ------------------------- program constants --------------------------- *)
\* RateLimiter(max_calls=3, period=1)
max_calls == 3
period == 1
\* the status code the paper loop accepts
HTTP_OK == 200
\* a representative non-200 status code
HTTP_ERR == 500

(* ------------------------------ helpers -------------------------------- *)
Ids == 1..NumIds
TopicIdx == 1..NumTopics
Range(s) == {s[k] : k \in 1..Len(s)}
SeqsUpTo(S, n) == UNION {[1..m -> S] : m \in 0..n}
Last(s) == s[Len(s)]
Count(s, x) == Cardinality({k \in 1..Len(s) : s[k] = x})
UpTo2(n) == IF n >= 2 THEN 2 ELSE n

\* the configured topics, in configuration order
TopicNames == <<"diabetes", "Asthma", "cancer", "flu">>
topics == [k \in TopicIdx |-> TopicNames[k]]

\* str.lower() on the names that occur in the model
lower(s) ==
  CASE s = "Diabetes" -> "diabetes"
    [] s = "Asthma" -> "asthma"
    [] s = "Sugar" -> "sugar"
    [] OTHER -> s

(* ------------------------- the MedlinePlus feed ------------------------ *)
\* 'also-called' as xmltodict delivers it: absent, one string, or a list
NoSynonyms == [shape |-> "absent", names |-> <<>>]
OneSynonym(s) == [shape |-> "str", names |-> <<s>>]
SynonymList(l) == [shape |-> "list", names |-> l]

Urls == {"u1", "u2", "u3", "u4"}
Site(u) == [url |-> u]

HealthTopics ==
  { [id |-> 1, title |-> "Diabetes", also |-> NoSynonyms,
     site |-> <<Site("u1"), Site("u2"), Site("u3"), Site("u4")>>],
    [id |-> 2, title |-> "Sugar", also |-> OneSynonym("Diabetes"),
     site |-> <<Site("u1"), Site("u1")>>],
    [id |-> 3, title |-> "Wheezing", also |-> SynonymList(<<"Asthma">>),
     site |-> <<Site("u2")>>],
    [id |-> 4, title |-> "Gout", also |-> NoSynonyms,
     site |-> <<Site("u1")>>] }
HtIds == {h.id : h \in HealthTopics}
Feeds == SeqsUpTo(HealthTopics, MaxFeedLen)

\* iterating a str yields its characters
Chars(s) ==
  CASE s = "Diabetes" -> <<"D", "i", "a", "b", "e", "t", "e", "s">>
    [] s = "Asthma" -> <<"A", "s", "t", "h", "m", "a">>
    [] OTHER -> <<"?">>

\* fault: the type test is missing, a single synonym is iterated as a list
all_names_NoTypeTest(ht) ==
  {lower(ht.title)} \cup
  (IF ht.also.shape = "absent" THEN {}
   ELSE LET l == IF ht.also.shape = "list" THEN ht.also.names
                 ELSE Chars(ht.also.names[1])
        IN {lower(l[k]) : k \in 1..Len(l)})

\* lines 126-132: the lowercased title and synonyms
all_names(ht) ==
  {lower(ht.title)} \cup
  (IF ht.also.shape = "absent" THEN {}
   ELSE IF ht.also.shape = "list"
   THEN {lower(ht.also.names[k]) : k \in 1..Len(ht.also.names)}
   ELSE {lower(ht.also.names[1])})

\* line 133: any([t.lower() in all_names for t in topics])
TopicMatches(ht) == \E k \in TopicIdx : lower(topics[k]) \in all_names(ht)

(* ------------------------------- state --------------------------------- *)
VARIABLES
  pc,               \* position of crawl()
  feed,             \* xml_dict['health-topics']['health-topic']
  hti,              \* index of the health topic of the feed loop
  si,               \* index of the site of the site loop
  site_urls,        \* self.site_urls
  crawled_pmc_ids,  \* self.crawled_pmc_ids
  ti,               \* index of the topic of crawl()'s loop
  papers,           \* the elements of the list papers the loop of
                    \*   index_papers_by_topic has still to yield
  pmc_id,           \* the loop's current element, 0 outside an iteration
  response,         \* outcome of the last requests.get of the paper loop
  payload,          \* response.text of that response, as an XML document
  title,            \* the local title of the iteration (None outside)
  pub_date,         \* the local pub_date of the iteration (None outside)
  rate_limiter,     \* the live RateLimiter: ages (ticks) of its calls
  recent,           \* ages (ticks) of the outbound requests of the run
  error,            \* the exception that ended crawl(), "none" if none
  fetchLog,         \* history: per paper id, whether each fetch gave a 200
  indexCalls,       \* history: index_document calls per paper id
  indexFailed,      \* history: paper ids whose index_document returned False
  presented,        \* history: per paper id, times discovery returned it
                    \*          (0, 1, or 2 for twice and more)
  returned,         \* history: per paper id, times it occurs in the list
                    \*          discovery returned for the stage entered last
  stageFetches,     \* history: fetches per paper id in that stage
  indexedOk,        \* history: papers indexed with success in that stage
  failures,         \* history: fetch/parse/index failures in that stage
  seenSkips,        \* history: ids that stage skipped as already crawled
  stagesRun,        \* history: topics whose paper stage was entered
  medlineDone,      \* history: index_medline_plus has returned
  feedStatus,       \* history: outcome of the catalog feed GET
  htIndexed,        \* history: index_medline_plus has called index_document
  htOutcome,        \* history: what the feed loop did with its last topic
  urlCalls,         \* history: index_url calls per site url
  runs              \* history: crawl() invocations on this PmcCrawler

vars == <<pc, feed, hti, si, site_urls, crawled_pmc_ids, ti, papers, pmc_id,
          response, rate_limiter, recent, error, fetchLog, indexCalls,
          indexFailed, presented, returned, stageFetches, indexedOk, failures,
          seenSkips, stagesRun, medlineDone, feedStatus, htIndexed, urlCalls,
          payload, title, pub_date, htOutcome, runs>>

histPaper == <<fetchLog, indexCalls, indexFailed, presented, returned,
               stageFetches, indexedOk, failures, seenSkips, stagesRun>>
histMedline == <<medlineDone, feedStatus, htIndexed, urlCalls>>
extracted == <<payload, title, pub_date>>

(* ---------------------------- rate limiter ----------------------------- *)
Window == period * TicksPerUnit
NewLimiter == <<>>
\* acquire() returns only when fewer than max_calls calls lie in the window
MayAcquire(rl) == Len(rl) < max_calls
Record(rl) == Append(rl, 0)
Aged(rl) == LET a == [k \in 1..Len(rl) |-> rl[k] + 1]
            IN SelectSeq(a, LAMBDA x : x < Window)
\* the run's outbound requests still inside the window (the newest
\* max_calls + 1 of them suffice to see a window that is too full)
Outbound(rc) == LET r == Append(rc, 0)
                IN IF Len(r) > max_calls + 1 THEN Tail(r) ELSE r

\* "with rate_limiter:" around an outbound call.  The limiter only delays,
\* so a specification without the clock admits every call at once and
\* leaves the limiter and the request window out.
Admitted(clock) == clock => MayAcquire(rate_limiter)
Called(clock) ==
  IF clock
  THEN rate_limiter' = Record(rate_limiter) /\ recent' = Outbound(recent)
  ELSE UNCHANGED <<rate_limiter, recent>>
\* an outbound call that passes through no limiter
Unlimited(clock) ==
  IF clock THEN recent' = Outbound(recent) ELSE UNCHANGED recent

(* --------------------------- HTTP responses ---------------------------- *)
\* requests.get either raises or returns a response with a status code
NoResponse == [raised |-> FALSE, status_code |-> 0]
Raised == [raised |-> TRUE, status_code |-> 0]
Status(c) == [raised |-> FALSE, status_code |-> c]
Responses == {Raised, Status(HTTP_OK), Status(HTTP_ERR)}

\* the request was answered, with status 200
Is200(r) == ~r.raised /\ r.status_code = HTTP_OK

\* fault: the status of the feed response is never looked at
raise_for_status_Omitted(r) == FALSE

\* line 119: response.raise_for_status()
raise_for_status(r) == r.status_code >= 400

\* fault: only the raised exception skips, the status check is missing
FetchSkipped_NoStatusCheck(r) == r.raised

\* lines 59-64: the two skip branches of the paper fetch
FetchSkipped(r) == r.raised \/ r.status_code # HTTP_OK

(* ----------------------- payloads and extraction ----------------------- *)
\* a Python value that is a str or None
None == [none |-> TRUE, s |-> ""]
Str(s) == [none |-> FALSE, s |-> s]
\* an f-string field: str(value)
Format(v) == IF v.none THEN "None" ELSE v.s

\* what find() gives for an element: nothing, or an element whose .text is
\* None (empty, or starting with a child element) or a string
Absent == [present |-> FALSE, text |-> None]
Element(t) == [present |-> TRUE, text |-> t]
Shapes(t) == {Absent, Element(None), Element(Str(t))}

\* the first pub-date element and its year, month and day children
NoDate == [present |-> FALSE, year |-> Absent, month |-> Absent,
           day |-> Absent]
Date(y, m, d) == [present |-> TRUE, year |-> y, month |-> m, day |-> d]
Dates ==
  {NoDate} \cup
  {Date(y, m, d) : y \in Shapes("2021"), m \in Shapes("07"),
                   d \in Shapes("15")}

\* response.text: not well-formed XML, or a document with or without a
\* first article-title and a first pub-date
NoPayload == [body |-> "none", article_title |-> Absent, pub_date |-> NoDate]
Malformed == [body |-> "malformed", article_title |-> Absent,
              pub_date |-> NoDate]
Xml(t, d) == [body |-> "xml", article_title |-> t, pub_date |-> d]
Payloads == {Xml(t, d) : t \in Shapes("T"), d \in Dates}
Complete == Xml(Element(Str("T")),
                Date(Element(Str("2021")), Element(Str("07")),
                     Element(Str("15"))))
\* the bodies a run of crawl() is followed with
SomePayloads == {Malformed, Complete}

\* line 67: etree.fromstring raises on a body that is not well-formed
Parses(p) == p.body = "xml"

\* lines 70-74: the title
extract_title(p) ==
  IF p.article_title.present THEN p.article_title.text
  ELSE Str("Title not found")

\* fault: a date that cannot be composed is "unknown", year or no year
extract_pub_date_NoFallback(p) ==
  LET d == p.pub_date IN
    IF ~d.present THEN Str("Publication date not found")
    ELSE IF d.year.present /\ d.month.present /\ d.day.present
    THEN Str(Format(d.year.text) \o "-" \o Format(d.month.text) \o "-"
             \o Format(d.day.text))
    ELSE Str("unknown")

\* lines 77-90: the publication date; year.text of a missing element
\* raises AttributeError into the except branch
extract_pub_date(p) ==
  LET d == p.pub_date IN
    IF ~d.present THEN Str("Publication date not found")
    ELSE IF d.year.present /\ d.month.present /\ d.day.present
    THEN Str(Format(d.year.text) \o "-" \o Format(d.month.text) \o "-"
             \o Format(d.day.text))
    ELSE IF d.year.present THEN d.year.text
    ELSE Str("unknown")

(* ------------------------------ discovery ------------------------------ *)
\* Paper ids are opaque strings, so an id the run has not met before is
\* named by the smallest number not yet used: the ids of a result that are
\* new make up an initial segment of the unused numbers and first occur in
\* increasing order.
FirstAt(s, x) == CHOOSE k \in 1..Len(s) : s[k] = x /\ \A j \in 1..(k - 1) : s[j] # x
NamedInOrder(s, known) ==
  LET new == Range(s) \ known IN
    /\ \A x \in new : \A y \in Ids \ known : y < x => y \in new
    /\ \A x, y \in new : x < y => FirstAt(s, x) < FirstAt(s, y)

\* lines 20-28: esearch with retmax=n answers with at most n ids
get_top_n_papers(n, known) ==
  {s \in SeqsUpTo(Ids, n) : NamedInOrder(s, known)}

\* a list of ids, up to the order of its elements: occurrences per id
NoPapers == [id \in Ids |-> 0]
Occurrences(raw) == [id \in Ids |-> Count(raw, id)]
RECURSIVE SizeTo(_, _)
SizeTo(l, n) == IF n = 0 THEN 0 ELSE l[n] + SizeTo(l, n - 1)
Size(l) == SizeTo(l, NumIds)

\* fault: the search result is iterated as it came, duplicates included
Unique_NoSet(raw) == Occurrences(raw)

\* line 43: list(set(...)): every id of the result once; the order in
\* which the loop yields them is unspecified (see PaperNext)
Unique(raw) == [id \in Ids |-> IF id \in Range(raw) THEN 1 ELSE 0]

\* fault: the loop stops one element early
LoopExhausted_OffByOne(l) == Size(l) <= 1

\* line 49: the for loop over papers has no element left
LoopExhausted(l) == Size(l) = 0

\* fault: the seen check is missing
AlreadyCrawled_NoCheck(id, seen) == FALSE

\* lines 52-53: the seen check
AlreadyCrawled(id, seen) == id \in seen

\* fault: the set is replaced, not added to
MarkCrawled_Replaced(seen, id) == {id}

\* fault: the id is not recorded
MarkCrawled_Forgotten(seen, id) == seen

\* line 91: self.crawled_pmc_ids.add(pmc_id)
MarkCrawled(seen, id) == seen \cup {id}

\* fault: the seen check of the site loop is missing
SiteSeen_NoCheck(url, seen) == FALSE

\* lines 168-169: the seen check of the site loop
SiteSeen(url, seen) == url \in seen

\* line 171: self.site_urls.add(site_url)
MarkSite(seen, url) == seen \cup {url}

\* fault: the continue after a failed index_document is missing
SitesFollow_NoContinue(succeeded) == TRUE

\* lines 162-165: the site loop runs only after index_document succeeded
SitesFollow(succeeded) == succeeded

\* fault: crawl() goes straight to the topic loop
CrawlFirstStage_PapersFirst == "discover"

\* line 182: the stage crawl() runs first
CrawlFirstStage == "medline_get"

\* the ids the crawler has met so far
Known == {id \in Ids : presented[id] > 0} \cup crawled_pmc_ids

(* -------------------------------- Init --------------------------------- *)
Init ==
  /\ pc = "start"
  /\ feed = <<>>
  /\ hti = 0
  /\ si = 0
  /\ site_urls = {}
  /\ crawled_pmc_ids = {}
  /\ ti = 0
  /\ papers = NoPapers
  /\ pmc_id = 0
  /\ response = NoResponse
  /\ payload = NoPayload
  /\ title = None
  /\ pub_date = None
  /\ rate_limiter = NewLimiter
  /\ recent = <<>>
  /\ error = "none"
  /\ fetchLog = [id \in Ids |-> <<>>]
  /\ stageFetches = [id \in Ids |-> 0]
  /\ indexCalls = [id \in Ids |-> 0]
  /\ indexFailed = {}
  /\ presented = [id \in Ids |-> 0]
  /\ indexedOk = 0
  /\ failures = 0
  /\ seenSkips = 0
  /\ returned = NoPapers
  /\ stagesRun = <<>>
  /\ medlineDone = FALSE
  /\ feedStatus = NoResponse
  /\ htIndexed = FALSE
  /\ htOutcome = "none"
  /\ urlCalls = [u \in Urls |-> 0]
  /\ runs = 1

Crash(e) == pc' = "crashed" /\ error' = e

(* ------------------------------- crawl() ------------------------------- *)
\* lines 176-182: read the configuration and enter the first stage
LoadTopics ==
  /\ pc = "start"
  /\ pc' = CrawlFirstStage
  /\ ti' = 1
  /\ UNCHANGED <<feed, hti, si, papers, pmc_id, response, site_urls,
                 crawled_pmc_ids, rate_limiter, recent, error>>
  /\ UNCHANGED <<histPaper, histMedline, extracted, htOutcome, runs>>

(* ------------------------- index_medline_plus -------------------------- *)
\* lines 116-122: GET the dated feed (outside any limiter), raise for
\* status, parse, create the stage's RateLimiter.  xmltodict delivers
\* 'health-topic' as a list only when the feed has two or more topics.
MedlineGetStep(clock) ==
  /\ pc = "medline_get"
  /\ Unlimited(clock)
  /\ \E r \in Responses :
       /\ feedStatus' = r
       /\ IF r.raised \/ raise_for_status(r)
          THEN /\ Crash("feed")
               /\ UNCHANGED <<feed, hti, rate_limiter>>
          ELSE \E f \in Feeds :
                 /\ rate_limiter' = NewLimiter
                 /\ IF Len(f) < 2
                    THEN Crash("feed_shape") /\ UNCHANGED <<feed, hti>>
                    ELSE /\ feed' = f
                         /\ hti' = 1
                         /\ pc' = "medline_loop"
                         /\ error' = error
  /\ UNCHANGED <<si, ti, papers, pmc_id, response, site_urls, crawled_pmc_ids>>
  /\ UNCHANGED <<histPaper, medlineDone, htIndexed, urlCalls>>
  /\ UNCHANGED <<extracted, htOutcome, runs>>

MedlineGet == MedlineGetStep(FALSE)
MedlineGetTimed == MedlineGetStep(TRUE)

\* lines 124-164: one health topic: filter, assemble, index_document
MedlineTopic ==
  /\ pc = "medline_loop"
  /\ hti <= Len(feed)
  /\ LET ht == feed[hti] IN
       IF ~TopicMatches(ht)
       THEN /\ hti' = hti + 1
            /\ htOutcome' = "skipped"
            /\ UNCHANGED <<pc, si, htIndexed>>
       ELSE \E succeeded \in BOOLEAN :
              /\ htIndexed' = TRUE
              /\ htOutcome' = IF succeeded THEN "indexed" ELSE "failed"
              /\ IF SitesFollow(succeeded)
                 THEN /\ pc' = "medline_sites"
                      /\ si' = 1
                      /\ hti' = hti
                 ELSE /\ hti' = hti + 1
                      /\ UNCHANGED <<pc, si>>
  /\ UNCHANGED <<feed, ti, papers, pmc_id, response, site_urls, crawled_pmc_ids,
                 rate_limiter, recent, error>>
  /\ UNCHANGED <<histPaper, medlineDone, feedStatus, urlCalls>>
  /\ UNCHANGED <<extracted, runs>>

\* lines 165-171: next site of the topic; xmltodict delivers 'site' as a
\* list only when the topic has two or more sites
MedlineSite ==
  /\ pc = "medline_sites"
  /\ LET sites == feed[hti].site IN
       IF Len(sites) < 2
       THEN /\ Crash("site_shape")
            /\ UNCHANGED <<hti, si, site_urls>>
       ELSE IF si > Len(sites)
       THEN /\ hti' = hti + 1
            /\ pc' = "medline_loop"
            /\ UNCHANGED <<si, site_urls, error>>
       ELSE IF SiteSeen(sites[si].url, site_urls)
       THEN /\ si' = si + 1
            /\ UNCHANGED <<pc, hti, site_urls, error>>
       ELSE /\ site_urls' = MarkSite(site_urls, sites[si].url)
            /\ pc' = "medline_url"
            /\ UNCHANGED <<hti, si, error>>
  /\ UNCHANGED <<feed, ti, papers, pmc_id, response, crawled_pmc_ids,
                 rate_limiter, recent>>
  /\ UNCHANGED <<histPaper, histMedline, extracted, htOutcome, runs>>

\* lines 172-173: the rate-limited index_url call; its result is ignored
MedlineIndexUrlStep(clock) ==
  /\ pc = "medline_url"
  /\ Admitted(clock)
  /\ Called(clock)
  /\ \E succeeded \in BOOLEAN :
       urlCalls' = [urlCalls EXCEPT ![feed[hti].site[si].url] = @ + 1]
  /\ si' = si + 1
  /\ pc' = "medline_sites"
  /\ UNCHANGED <<feed, hti, ti, papers, pmc_id, response, site_urls,
                 crawled_pmc_ids, error>>
  /\ UNCHANGED <<histPaper, medlineDone, feedStatus, htIndexed>>
  /\ UNCHANGED <<extracted, htOutcome, runs>>

MedlineIndexUrl == MedlineIndexUrlStep(FALSE)
MedlineIndexUrlTimed == MedlineIndexUrlStep(TRUE)

\* line 124 exhausted: index_medline_plus returns to crawl()
MedlineEnd ==
  /\ pc = "medline_loop"
  /\ hti > Len(feed)
  /\ medlineDone' = TRUE
  /\ pc' = "discover"
  /\ feed' = <<>>
  /\ hti' = 0
  /\ si' = 0
  /\ htOutcome' = "none"
  /\ UNCHANGED <<ti, papers, pmc_id, response, site_urls, crawled_pmc_ids,
                 rate_limiter, recent, error>>
  /\ UNCHANGED <<histPaper, feedStatus, htIndexed, urlCalls>>
  /\ UNCHANGED <<extracted, runs>>

(* ------------------------ index_papers_by_topic ------------------------ *)
\* lines 183, 43-47: enter the stage of topic ti: discovery (may raise),
\* list(set(...)), a new RateLimiter for the stage
Discover ==
  /\ pc = "discover"
  /\ ti <= NumTopics
  /\ stagesRun' = Append(stagesRun, ti)
  /\ stageFetches' = [id \in Ids |-> 0]
  /\ indexedOk' = 0
  /\ failures' = 0
  /\ seenSkips' = 0
  /\ \/ /\ Crash("discovery")
        /\ returned' = NoPapers
        /\ UNCHANGED <<papers, rate_limiter, presented>>
     \/ \E raw \in get_top_n_papers(n_papers, Known) :
          /\ returned' = Occurrences(raw)
          /\ presented' = [id \in Ids |-> UpTo2(presented[id] + Count(raw, id))]
          /\ papers' = Unique(raw)
          /\ rate_limiter' = NewLimiter
          /\ pc' = "loop"
          /\ error' = error
  /\ UNCHANGED <<feed, hti, si, ti, pmc_id, response, site_urls,
                 crawled_pmc_ids, recent>>
  /\ UNCHANGED <<fetchLog, indexCalls, indexFailed>>
  /\ UNCHANGED <<histMedline, extracted, htOutcome, runs>>

\* lines 49-53: the loop yields its next element (any of those left: the
\* order of a set is unspecified) and skips it when already crawled; the
\* stage ends when no element is left
PaperNext ==
  /\ pc = "loop"
  /\ IF LoopExhausted(papers)
     THEN /\ ti' = ti + 1
          /\ pc' = "discover"
          /\ papers' = NoPapers
          /\ response' = NoResponse
          /\ UNCHANGED <<pmc_id, seenSkips>>
     ELSE \E id \in Ids :
            /\ papers[id] > 0
            /\ papers' = [papers EXCEPT ![id] = @ - 1]
            /\ IF AlreadyCrawled(id, crawled_pmc_ids)
               THEN /\ seenSkips' = seenSkips + 1
                    /\ UNCHANGED <<pc, pmc_id>>
               ELSE /\ pmc_id' = id
                    /\ pc' = "fetch"
                    /\ UNCHANGED seenSkips
            /\ UNCHANGED <<ti, response>>
  /\ UNCHANGED <<feed, hti, si, site_urls, crawled_pmc_ids,
                 rate_limiter, recent, error>>
  /\ UNCHANGED <<fetchLog, stageFetches, indexCalls, indexFailed, indexedOk,
                 failures, returned, stagesRun, presented>>
  /\ UNCHANGED <<histMedline, extracted, htOutcome, runs>>

\* lines 55-64: the rate-limited GET and its two skip branches
FetchStep(clock) ==
  /\ pc = "fetch"
  /\ Admitted(clock)
  /\ Called(clock)
  /\ \E r \in Responses :
       /\ response' = r
       /\ fetchLog' = [fetchLog EXCEPT ![pmc_id] = Append(@, Is200(r))]
       /\ IF FetchSkipped(r)
          THEN /\ pmc_id' = 0
               /\ pc' = "loop"
               /\ failures' = failures + 1
               /\ UNCHANGED payload
          ELSE /\ pc' = "extract"
               /\ payload' \in SomePayloads
               /\ UNCHANGED <<pmc_id, failures>>
  /\ stageFetches' = [stageFetches EXCEPT ![pmc_id] = @ + 1]
  /\ UNCHANGED <<feed, hti, si, ti, papers, site_urls, crawled_pmc_ids,
                 error, title, pub_date>>
  /\ UNCHANGED <<indexCalls, indexFailed, indexedOk, seenSkips, returned,
                 stagesRun, presented>>
  /\ UNCHANGED <<histMedline, htOutcome, runs>>

Fetch == FetchStep(FALSE)
FetchTimed == FetchStep(TRUE)

\* lines 66-91: etree.fromstring (raises on a body that is not well-formed
\* XML, outside any try), title and date extraction, mark the id crawled
Extract ==
  /\ pc = "extract"
  /\ IF Parses(payload)
     THEN /\ title' = extract_title(payload)
          /\ pub_date' = extract_pub_date(payload)
          /\ crawled_pmc_ids' = MarkCrawled(crawled_pmc_ids, pmc_id)
          /\ pc' = "index"
          /\ UNCHANGED <<error, failures>>
     ELSE /\ Crash("parse")
          /\ failures' = failures + 1
          /\ UNCHANGED <<crawled_pmc_ids, title, pub_date>>
  /\ UNCHANGED <<feed, hti, si, ti, papers, pmc_id, response, site_urls,
                 rate_limiter, recent, payload>>
  /\ UNCHANGED <<fetchLog, stageFetches, indexCalls, indexFailed, indexedOk,
                 seenSkips, returned, stagesRun, presented>>
  /\ UNCHANGED <<histMedline, htOutcome, runs>>

\* lines 95-113: assemble the document and call index_document
Index ==
  /\ pc = "index"
  /\ \E succeeded \in BOOLEAN :
       /\ indexCalls' = [indexCalls EXCEPT ![pmc_id] = @ + 1]
       /\ IF succeeded
          THEN /\ indexedOk' = indexedOk + 1
               /\ UNCHANGED <<indexFailed, failures>>
          ELSE /\ indexFailed' = indexFailed \cup {pmc_id}
               /\ failures' = failures + 1
               /\ UNCHANGED indexedOk
  /\ pmc_id' = 0
  /\ pc' = "loop"
  /\ payload' = NoPayload
  /\ title' = None
  /\ pub_date' = None
  /\ UNCHANGED <<feed, hti, si, ti, papers, response, site_urls,
                 crawled_pmc_ids, rate_limiter, recent, error>>
  /\ UNCHANGED <<fetchLog, stageFetches, seenSkips, returned, stagesRun,
                 presented>>
  /\ UNCHANGED <<histMedline, htOutcome, runs>>

\* line 183 exhausted: crawl() returns
CrawlDone ==
  /\ pc = "discover"
  /\ ti > NumTopics
  /\ pc' = "done"
  /\ UNCHANGED <<feed, hti, si, ti, papers, pmc_id, response, site_urls,
                 crawled_pmc_ids, rate_limiter, recent, error>>
  /\ UNCHANGED <<histPaper, histMedline, extracted, htOutcome, runs>>

(* -------------------------------- clock -------------------------------- *)
\* one tick of the clock passes while crawl() runs
Tick ==
  /\ pc \notin {"done", "crashed"}
  /\ rate_limiter # <<>> \/ recent # <<>>
  /\ rate_limiter' = Aged(rate_limiter)
  /\ recent' = Aged(recent)
  /\ UNCHANGED <<pc, feed, hti, si, ti, papers, pmc_id, response, site_urls,
                 crawled_pmc_ids, error>>
  /\ UNCHANGED <<histPaper, histMedline, extracted, htOutcome, runs>>

Next ==
  \/ LoadTopics
  \/ MedlineGet
  \/ MedlineTopic
  \/ MedlineSite
  \/ MedlineIndexUrl
  \/ MedlineEnd
  \/ Discover
  \/ PaperNext
  \/ Fetch
  \/ Extract
  \/ Index
  \/ CrawlDone

Spec == Init /\ [][Next]_vars

\* the same run against the clock: calls wait for the limiter
NextTimed ==
  \/ LoadTopics
  \/ MedlineGetTimed
  \/ MedlineTopic
  \/ MedlineSite
  \/ MedlineIndexUrlTimed
  \/ MedlineEnd
  \/ Discover
  \/ PaperNext
  \/ FetchTimed
  \/ Extract
  \/ Index
  \/ CrawlDone
  \/ Tick

SpecTimed == Init /\ [][NextTimed]_vars

(* ------------------------ a second crawl() call ------------------------ *)
\* crawl() has returned and is called again on the same PmcCrawler: the
\* sets made by __init__ (lines 35-36) are the object's and stay as they
\* are; the histories start over with the invocation
Recrawl ==
  /\ pc = "done"
  /\ runs < MaxRuns
  /\ runs' = runs + 1
  /\ pc' = "start"
  /\ ti' = 0
  /\ fetchLog' = [id \in Ids |-> <<>>]
  /\ stageFetches' = [id \in Ids |-> 0]
  /\ indexCalls' = [id \in Ids |-> 0]
  /\ indexFailed' = {}
  /\ presented' = [id \in Ids |-> 0]
  /\ indexedOk' = 0
  /\ failures' = 0
  /\ seenSkips' = 0
  /\ returned' = NoPapers
  /\ stagesRun' = <<>>
  /\ medlineDone' = FALSE
  /\ feedStatus' = NoResponse
  /\ htIndexed' = FALSE
  /\ urlCalls' = [u \in Urls |-> 0]
  /\ UNCHANGED <<site_urls, crawled_pmc_ids>>
  /\ UNCHANGED <<feed, hti, si, papers, pmc_id, response, rate_limiter,
                 recent, error, extracted, htOutcome>>

NextRerun ==
  \/ Next
  \/ Recrawl

SpecRerun == Init /\ [][NextRerun]_vars

(* --------------------------- a silent server --------------------------- *)
\* line 58: requests.get is called without timeout=, so it waits for as
\* long as the server keeps the connection open and sends nothing
FetchHang ==
  /\ pc = "fetch"
  /\ pc' = "hung"
  /\ UNCHANGED <<feed, hti, si, site_urls, crawled_pmc_ids, ti, papers,
                 pmc_id, response, rate_limiter, recent, error>>
  /\ UNCHANGED <<histPaper, histMedline, extracted, htOutcome, runs>>

NextLive ==
  \/ Next
  \/ FetchHang

\* crawl() is the one thread of the process: it takes its next step
\* whenever it has one
SpecLive == Init /\ [][NextLive]_vars /\ WF_vars(NextLive)

(* ------------------- extraction over every payload -------------------- *)
\* crawl() right after the first fetch of the run returned 200: no health
\* topic of the feed matched, discovery returned one id for the first
\* topic, and the body is any of the payloads
InitExtract ==
  /\ pc = "extract"
  /\ payload \in Payloads \cup {Malformed}
  /\ title = None
  /\ pub_date = None
  /\ feed = <<>>
  /\ hti = 0
  /\ si = 0
  /\ site_urls = {}
  /\ crawled_pmc_ids = {}
  /\ ti = 1
  /\ papers = NoPapers
  /\ pmc_id = 1
  /\ response = Status(HTTP_OK)
  /\ rate_limiter = NewLimiter
  /\ recent = <<>>
  /\ error = "none"
  /\ fetchLog = [id \in Ids |-> IF id = 1 THEN <<TRUE>> ELSE <<>>]
  /\ stageFetches = [id \in Ids |-> IF id = 1 THEN 1 ELSE 0]
  /\ indexCalls = [id \in Ids |-> 0]
  /\ indexFailed = {}
  /\ presented = [id \in Ids |-> IF id = 1 THEN 1 ELSE 0]
  /\ indexedOk = 0
  /\ failures = 0
  /\ seenSkips = 0
  /\ returned = [id \in Ids |-> IF id = 1 THEN 1 ELSE 0]
  /\ stagesRun = <<1>>
  /\ medlineDone = TRUE
  /\ feedStatus = Status(HTTP_OK)
  /\ htIndexed = FALSE
  /\ htOutcome = "none"
  /\ urlCalls = [u \in Urls |-> 0]
  /\ runs = 1

\* the rest of that loop iteration
NextExtract ==
  \/ Extract
  \/ Index

SpecExtract == InitExtract /\ [][NextExtract]_vars

TypeOK ==
  /\ pc \in {"start", "medline_get", "medline_loop", "medline_sites",
             "medline_url", "discover", "loop", "fetch", "extract", "index",
             "done", "crashed", "hung"}
  /\ crawled_pmc_ids \subseteq Ids
  /\ site_urls \subseteq Urls
  /\ Len(rate_limiter) <= max_calls

(* ======================= properties of the run ========================= *)
NumFetches(id) == Len(fetchLog[id])
OkFetches(id) == Count(fetchLog[id], TRUE)
NoDuplicates(l) == \A id \in Ids : l[id] <= 1
\* the paper stage entered last has run to its end
StageFinished == pc \in {"discover", "done"} /\ stagesRun # <<>>
\* the last fetch of the id was made in the current stage and was skipped
SkippedInStage(id) ==
  /\ stageFetches[id] >= 1
  /\ fetchLog[id] # <<>>
  /\ ~Last(fetchLog[id])
\* the current stage's discovery returned the id, and the stage passed it
\* over without a fetch
PassedOver(id) == returned[id] >= 1 /\ stageFetches[id] = 0

\* C1 (as stated): at the end of a run, an identifier that was presented
\* twice has been fetched exactly once and passed to index_document exactly
\* once.
C1_Original ==
  \A id \in Ids :
    (pc = "done" /\ presented[id] >= 2) =>
      (NumFetches(id) = 1 /\ indexCalls[id] = 1)

\* C1 (amended): however often an identifier is presented, at most one
\* fetch of it returns 200 and index_document is called for it at most
\* once and never without a 200 fetch; once the identifier is in
\* crawled_pmc_ids its 200 fetch is its last fetch, and after its loop
\* iteration index_document has been called for it exactly once.
C1_DedupAfterSuccess ==
  \A id \in Ids :
    /\ indexCalls[id] <= OkFetches(id)
    /\ OkFetches(id) <= 1
    /\ id \in crawled_pmc_ids =>
         /\ OkFetches(id) = 1
         /\ Last(fetchLog[id])
         /\ pmc_id # id => indexCalls[id] = 1

\* an identifier crawled in an earlier stage was returned again for the
\* last topic (so presented twice) and the run ended with one fetch and
\* one index call for it
C1_Witness ==
  /\ pc = "done"
  /\ \E id \in crawled_pmc_ids :
       /\ presented[id] >= 2
       /\ PassedOver(id)
       /\ NumFetches(id) = 1
       /\ indexCalls[id] = 1

\* C2: a fetch that raises or answers with a status other than 200 ends
\* the iteration: index_document is not called, crawled_pmc_ids is
\* unchanged, and the loop goes on with the elements it has left.
C2_FetchFailureSkips ==
  [][ (fetchLog' # fetchLog /\ ~Is200(response')) =>
        /\ pc' = "loop"
        /\ papers' = papers
        /\ ti' = ti
        /\ error' = "none"
        /\ indexCalls' = indexCalls
        /\ crawled_pmc_ids' = crawled_pmc_ids ]_vars

\* an id was skipped on a failed fetch in this stage and the loop went on
\* to fetch, extract and index another one
C2_Witness ==
  /\ pc = "index"
  /\ \E id \in Ids :
       /\ id # pmc_id
       /\ SkippedInStage(id)
       /\ id \notin crawled_pmc_ids
       /\ indexCalls[id] = 0

\* C3: the id is in crawled_pmc_ids when index_document is called for it,
\* and an id whose index_document returned False stays in crawled_pmc_ids
\* and is neither fetched nor indexed again.
C3_IndexFailureStaysSeen ==
  [][ /\ pc' = "index" => pmc_id' \in crawled_pmc_ids'
      /\ \A id \in indexFailed :
           /\ id \in crawled_pmc_ids'
           /\ fetchLog'[id] = fetchLog[id]
           /\ indexCalls'[id] = indexCalls[id] ]_vars

\* an id whose indexing failed in an earlier stage was returned again for
\* the last topic and the run ended without a second fetch or index call
C3_Witness ==
  /\ pc = "done"
  /\ \E id \in indexFailed :
       /\ PassedOver(id)
       /\ NumFetches(id) = 1
       /\ indexCalls[id] = 1

\* C4 (as stated): a stage indexes at most n_papers papers, and exactly
\* n_papers when it saw no fetch or index failure and discovery returned
\* no duplicate id.
C4_Original ==
  /\ indexedOk <= n_papers
  /\ (StageFinished /\ failures = 0 /\ NoDuplicates(returned))
       => indexedOk = n_papers

\* C4 (amended): a stage indexes at most n_papers papers, and exactly
\* n_papers when it ran to its end without a fetch or index failure and
\* discovery returned n_papers distinct ids none of which was already in
\* crawled_pmc_ids.
C4_AtMostNPapers ==
  /\ indexedOk <= n_papers
  /\ (/\ StageFinished
      /\ failures = 0
      /\ seenSkips = 0
      /\ Size(returned) = n_papers
      /\ NoDuplicates(returned))
       => indexedOk = n_papers

\* a finished stage that indexed n_papers papers
C4_Witness ==
  /\ StageFinished
  /\ failures = 0
  /\ Size(returned) = n_papers
  /\ indexedOk = n_papers

\* C5: a failure in one paper's pipeline does not end the topic loop: when
\* crawl() has stopped, the loop has no element left that is not crawled.
C5_Claim ==
  pc \in {"done", "crashed"} =>
    \A id \in Ids : papers[id] > 0 => id \in crawled_pmc_ids

\* C6: a discovery error skips the topic and does not end the run.
C6_Claim == error = "discovery" => pc # "crashed"

FeedNon200 == feedStatus \in Responses /\ ~feedStatus.raised /\ ~Is200(feedStatus)
NothingFromFeedIndexed == ~htIndexed /\ \A u \in Urls : urlCalls[u] = 0
NoPaperWork ==
  /\ stagesRun = <<>>
  /\ \A id \in Ids : fetchLog[id] = <<>> /\ indexCalls[id] = 0

C8_Claim == Len(recent) <= max_calls

\* C9 (as stated): once a fetch of an id has been skipped, the id is not
\* fetched and not indexed again in the run.
C9_Original ==
  [][ \A id \in Ids :
        (\E k \in 1..Len(fetchLog[id]) : ~fetchLog[id][k]) =>
          /\ fetchLog'[id] = fetchLog[id]
          /\ indexCalls'[id] = indexCalls[id] ]_vars

\* C9 (amended): once a fetch of an id has been skipped, the id is not
\* fetched and not indexed again for the rest of that topic's stage.
C9_NoRetryInStage ==
  [][ \A id \in Ids :
        (SkippedInStage(id) /\ stagesRun' = stagesRun) =>
          /\ fetchLog'[id] = fetchLog[id]
          /\ indexCalls'[id] = indexCalls[id] ]_vars

\* discovery returned an id twice for the topic, its fetch was skipped,
\* and the stage has ended without a second fetch
C9_Witness ==
  /\ StageFinished
  /\ \E id \in Ids :
       /\ returned[id] >= 2
       /\ SkippedInStage(id)
       /\ stageFetches[id] = 1
       /\ indexCalls[id] = 0

MedlinePcs == {"medline_get", "medline_loop", "medline_sites", "medline_url"}
PaperPcs == {"discover", "loop", "fetch", "extract", "index"}

\* C10: the health-topic stage has returned before any paper stage is
\* entered or any paper is fetched, the paper stages are entered in
\* configuration order, one per topic, and all of them have been entered
\* when crawl() returns.
C10_StageOrder ==
  /\ (pc \in PaperPcs \/ stagesRun # <<>>
      \/ \E id \in Ids : fetchLog[id] # <<>>) => medlineDone
  /\ pc \in MedlinePcs \cup {"start"} => ~medlineDone /\ stagesRun = <<>>
  /\ Len(stagesRun) <= NumTopics
  /\ \A k \in 1..Len(stagesRun) : stagesRun[k] = k
  /\ pc \in {"loop", "fetch", "extract", "index"} =>
       stagesRun # <<>> /\ Last(stagesRun) = ti
  /\ pc = "done" => Len(stagesRun) = NumTopics

\* a run that indexed a health topic and its site links, crawled a paper
\* in an earlier paper stage and another in the last, and returned
C10_Witness ==
  /\ pc = "done"
  /\ htIndexed
  /\ site_urls # {}
  /\ indexedOk > 0
  /\ \E id \in crawled_pmc_ids : returned[id] = 0

HasText(e) == e.present /\ ~e.text.none

C12_Claim == pc = "index" => ~title.none /\ ~pub_date.none

\* the Topic Filter as stated: some configured topic, lowercased, equals
\* the lowercased title or one of the lowercased synonyms
Synonyms(ht) == {ht.also.names[k] : k \in 1..Len(ht.also.names)}
FilterMatches(ht) ==
  \E k \in TopicIdx :
    \/ lower(topics[k]) = lower(ht.title)
    \/ \E n \in Synonyms(ht) : lower(topics[k]) = lower(n)
\* the same record with its one synonym in the other shape
OtherShape(ht) ==
  IF ht.also.shape = "str"
  THEN [ht EXCEPT !.also = SynonymList(ht.also.names)]
  ELSE IF ht.also.shape = "list" /\ Len(ht.also.names) = 1
  THEN [ht EXCEPT !.also = OneSynonym(ht.also.names[1])]
  ELSE ht

\* C13: the feed loop passes a health topic to index_document iff some
\* configured topic, lowercased, equals its lowercased title or one of its
\* lowercased synonyms; a single synonym decides the same as a string and
\* as a one-element list, and without also-called only the title decides.
C13_TopicFilter ==
  [][ (pc = "medline_loop" /\ hti <= Len(feed)) =>
        LET ht == feed[hti] IN
          /\ htOutcome' = "skipped" <=> ~FilterMatches(ht)
          /\ htOutcome' = "skipped" =>
                htIndexed' = htIndexed /\ pc' = pc /\ hti' = hti + 1
          /\ htOutcome' # "skipped" => htIndexed'
          /\ TopicMatches(OtherShape(ht)) <=> TopicMatches(ht)
          /\ ht.also.shape = "absent" =>
                (TopicMatches(ht) <=>
                   \E k \in TopicIdx : lower(topics[k]) = lower(ht.title)) ]_vars

\* a health topic that matches only through its single-string synonym,
\* in another case than the configured topic, was indexed
C13_Witness ==
  /\ pc = "medline_sites"
  /\ htOutcome = "indexed"
  /\ feed[hti].also.shape = "str"
  /\ \A k \in TopicIdx : topics[k] # feed[hti].title
  /\ \A k \in TopicIdx : topics[k] \notin Synonyms(feed[hti])

\* C14: within a run index_url is called at most once for a site URL.
C14_IndexUrlOnce == \A u \in Urls : urlCalls[u] <= 1

\* the second of two indexed health topics carries, twice, a site URL of
\* the first: its site loop has ended and the URL was indexed once
C14_Witness ==
  /\ pc = "medline_sites"
  /\ hti = 2
  /\ si > Len(feed[2].site)
  /\ \E j \in 1..Len(feed[1].site) :
       /\ feed[2].site[1].url = feed[1].site[j].url
       /\ feed[2].site[2].url = feed[1].site[j].url
       /\ urlCalls[feed[1].site[j].url] = 1
  /\ \A j \in 1..Len(feed[1].site) : urlCalls[feed[1].site[j].url] = 1

\* C15: when the health-topic stage ends, index_url has been called for
\* every site URL of every health topic of the feed that matches.
C15_Claim ==
  (\/ pc = "medline_loop" /\ hti > Len(feed)
   \/ pc = "crashed" /\ error = "site_shape") =>
    \A k \in 1..Len(feed) :
      TopicMatches(feed[k]) =>
        \A j \in 1..Len(feed[k].site) : urlCalls[feed[k].site[j].url] >= 1

\* C16: a paper id enters crawled_pmc_ids only after its fetch returned
\* 200 and its payload was parsed, and a site URL enters site_urls only
\* after the index_url call for it.
C16_Claim ==
  [][ /\ \A id \in Ids :
           (id \in crawled_pmc_ids' /\ id \notin crawled_pmc_ids) =>
             /\ fetchLog[id] # <<>>
             /\ Last(fetchLog[id])
             /\ Parses(payload)
      /\ \A u \in Urls :
           (u \in site_urls' /\ u \notin site_urls) => urlCalls[u] >= 1 ]_vars

\* C17: both sets are empty when crawl() starts, at every invocation.
C17_Claim == pc = "start" => site_urls = {} /\ crawled_pmc_ids = {}

\* C18: every paper fetch that is issued resolves, to a payload or to a
\* skip.
C18_Claim == (pc = "fetch") ~> (pc \in {"loop", "extract"})

Indexed == {id \in Ids : indexCalls[id] >= 1}

\* C19: crawled_pmc_ids only grows; index_document is called for an id
\* only when the id is the loop's current element, is in crawled_pmc_ids
\* and its fetch of this iteration returned 200; and at the end of every
\* iteration crawled_pmc_ids is the set of ids index_document was called
\* for, each exactly once.
C19_CrawledIsIndexed ==
  [][ /\ crawled_pmc_ids \subseteq crawled_pmc_ids'
      /\ \A id \in Ids :
           indexCalls'[id] # indexCalls[id] =>
             /\ id = pmc_id
             /\ id \in crawled_pmc_ids
             /\ Is200(response)
             /\ stageFetches[id] = 1
             /\ Last(fetchLog[id])
      /\ Indexed' \subseteq crawled_pmc_ids'
      /\ pc' \in {"loop", "discover", "done"} =>
           /\ crawled_pmc_ids' = Indexed'
           /\ \A id \in Indexed' : indexCalls'[id] = 1 ]_vars

\* an iteration has ended with two ids crawled and indexed once each, one
\* of them with index_document returning False, and a third id fetched
\* and skipped
C19_Witness ==
  /\ pc = "loop"
  /\ crawled_pmc_ids = Indexed
  /\ \E a, b \in crawled_pmc_ids : a \in indexFailed /\ b \notin indexFailed
  /\ \E c \in Ids : c \notin crawled_pmc_ids /\ fetchLog[c] # <<>>

\* C20: when index_document returns False for a matching health topic,
\* the loop goes on to the next health topic without entering the site
\* loop: no index_url call, site_urls unchanged; and the site loop never
\* passes over a URL that index_url has not been called for.
C20_FailedTopicLeavesSites ==
  [][ /\ (pc = "medline_loop" /\ hti <= Len(feed) /\ htOutcome' = "failed") =>
           /\ site_urls' = site_urls
           /\ urlCalls' = urlCalls
           /\ pc' = "medline_loop"
           /\ hti' = hti + 1
      /\ (/\ pc = "medline_sites"
          /\ Len(feed[hti].site) >= 2
          /\ si <= Len(feed[hti].site)
          /\ urlCalls[feed[hti].site[si].url] = 0) =>
           /\ pc' = "medline_url"
           /\ feed[hti].site[si].url \in site_urls' ]_vars

\* index_document failed for the first health topic, whose sites stayed
\* out of site_urls, and the second one, carrying one of its site URLs,
\* had that URL indexed
C20_Witness ==
  /\ pc = "medline_sites"
  /\ hti = 2
  /\ TopicMatches(feed[1])
  /\ \E j \in 1..Len(feed[1].site) :
       /\ feed[1].site[j].url = feed[2].site[1].url
       /\ urlCalls[feed[1].site[j].url] = 1
  /\ \E j \in 1..Len(feed[1].site) : feed[1].site[j].url \notin site_urls

====
